---- MODULE Spec2Model ----
(***************************************************************************)
(* XTTS-v2 TTS microservice (projects/xtts-server/main.py) and its         *)
(* verification script (projects/xtts-server/verify.py).                   *)
(*                                                                         *)
(* The three endpoints are `async def` handlers without any await: each    *)
(* handler body runs to completion on the event loop before another        *)
(* handler starts, so a handler is one atomic action.  A request is parsed *)
(* by its pydantic schema (Post...), handled (the handler action) and its  *)
(* response sent (SendResponse), after which the request-scoped values are *)
(* gone; only _tts_model outlives a request.                               *)
(*                                                                         *)
(* Abstractions.  A base64 payload is the pair (does b64decode accept it,  *)
(* how many bytes it decodes to); sample values are not modelled.  Time is *)
(* counted in whole seconds of time.perf_counter().  A duration is the     *)
(* pair <<sample_count, sample_rate>> and is compared with a bound by      *)
(* cross multiplication, which agrees with Python's correctly rounded      *)
(* int / int for every count and rate below 2^53.                          *)
(***************************************************************************)
EXTENDS Integers, Sequences, FiniteSets, TLC

\* ---------------------------------------------------------------- bounds
\* largest declared sample rate (Hz) of a request, and of the engine output
MaxRate == 2
\* longest time (s) spent before and after the Model Gateway part of a handler
MaxPhase == 1
\* longest time (s) spent in the Model Gateway part (model load and engine call)
MaxEngineTime == 4
\* longest text of a synthesize request, in characters
MaxTextLen == 2
\* largest decoded size of an embedding payload, in bytes
MaxEmbBytes == 4
\* largest number of samples the engine returns
MaxWav == 1
\* requests are accepted while fewer objects than this were constructed
MaxConstructions == 2

\* ------------------------------------------------------ program constants
LATENCY_WARNING_THRESHOLD_SECONDS == 4
MinDurationSeconds == 1
MaxDurationSeconds == 30
Float32Size == 4
HTTP_200_OK == 200
HTTP_400_BAD_REQUEST == 400
HTTP_500_INTERNAL_SERVER_ERROR == 500
HTTP_422_UNPROCESSABLE_ENTITY == 422
\* speed bounds 0.5 and 2.0 in tenths
MinSpeedTenths == 5
MaxSpeedTenths == 20
\* _tts_model = None
NoModel == 0

LANGUAGE_CODE_MAP ==
    [l \in {"es", "zh", "zh-cn", "ko"} |->
        CASE l = "es" -> "es"
          [] l = "zh" -> "zh-cn"
          [] l = "zh-cn" -> "zh-cn"
          [] l = "ko" -> "ko"]

SUPPORTED_LANGUAGES == {"es", "zh-cn", "ko"}

\* ------------------------------------------------------------ input sets
MaxAudioBytes == Float32Size * (MaxDurationSeconds * MaxRate + 1) + 1

\* audio_base64: a malformed string, or a string decoding to nbytes bytes
AudioPayloads ==
    {[b64ok |-> FALSE, nbytes |-> 0]}
        \cup [b64ok : {TRUE}, nbytes : 0 .. MaxAudioBytes]

SampleRates == -1 .. MaxRate

ExtractEmbeddingRequest ==
    [op : {"extract-embedding"}, audio_base64 : AudioPayloads, sample_rate : SampleRates]

Chars == {" ", "a"}

Texts == UNION {[1 .. n -> Chars] : n \in 0 .. MaxTextLen}

RequestLanguages == {"es", "zh", "zh-cn", "ko", "fr", "en", "ZH", ""}

\* embedding_base64: None, the empty string, or a non-empty string
EmbeddingPayloads ==
    {[kind |-> "None", b64ok |-> TRUE, nbytes |-> 0],
     [kind |-> "empty", b64ok |-> TRUE, nbytes |-> 0],
     [kind |-> "str", b64ok |-> FALSE, nbytes |-> 0]}
        \cup [kind : {"str"}, b64ok : {TRUE}, nbytes : 0 .. MaxEmbBytes]

SpeedsTenths == {MinSpeedTenths - 1, MinSpeedTenths, 10, MaxSpeedTenths, MaxSpeedTenths + 1}

SynthesizeRequest ==
    [op : {"synthesize"}, text : Texts, language : RequestLanguages,
     embedding_base64 : EmbeddingPayloads, speed : SpeedsTenths]

\* What the environment decides while a handler runs: whether TTS(...) and the
\* engine call return or raise, what the engine returns (a number of samples
\* and, for synthesis, its native sample rate), how long each part takes.
Envs(rates) ==
    [ctor_ok : {TRUE}, engine_ok : {TRUE},
     samples : 0 .. MaxWav, output_sample_rate : rates,
     t_pre : 0 .. MaxPhase, t_gateway : 0 .. MaxEngineTime, t_post : 0 .. MaxPhase]

NoEnv ==
    [ctor_ok |-> TRUE, engine_ok |-> TRUE, samples |-> 0, output_sample_rate |-> 1,
     t_pre |-> 0, t_gateway |-> 0, t_post |-> 0]

NoRequest == [op |-> "none"]
NoResponse == [op |-> "none"]
NoCall == [made |-> FALSE]
NoException == [type |-> "none", msg |-> ""]

VARIABLES tts_model, constructions, request, response,
          hpc, calls, embedding_b64, embed_ok, synth_ok, idx, exit_status, summary

server_vars == <<tts_model, constructions, request, response>>
harness_vars == <<hpc, calls, embedding_b64, embed_ok, synth_ok, idx, exit_status, summary>>
vars == <<server_vars, harness_vars>>

\* ------------------------------------------------------- pure helpers
\* base64.b64decode(payload): the decoded byte count, or binascii.Error
b64decode(p) ==
    IF p.b64ok
    THEN [raised |-> FALSE, nbytes |-> p.nbytes, msg |-> ""]
    ELSE [raised |-> TRUE, nbytes |-> 0, msg |-> "Incorrect padding"]

\* np.frombuffer(bytes, dtype=np.float32): the element count, or ValueError
frombuffer(nbytes) ==
    IF nbytes % Float32Size = 0
    THEN [raised |-> FALSE, len |-> nbytes \div Float32Size, msg |-> ""]
    ELSE [raised |-> TRUE, len |-> 0,
          msg |-> "buffer size must be a multiple of element size"]

\* duration < bound and duration > bound for duration = <<count, rate>>, rate # 0
DurationLt(d, bound) ==
    IF d[2] > 0 THEN d[1] < bound * d[2] ELSE d[1] > bound * d[2]

DurationGt(d, bound) ==
    IF d[2] > 0 THEN d[1] > bound * d[2] ELSE d[1] < bound * d[2]

TooShortInclusive(duration_seconds) == ~DurationGt(duration_seconds, MinDurationSeconds)

\* if duration_seconds < 1.0
TooShort(duration_seconds) == DurationLt(duration_seconds, MinDurationSeconds)

\* if duration_seconds > 30.0
TooLong(duration_seconds) == DurationGt(duration_seconds, MaxDurationSeconds)

RECURSIVE lstrip(_)
lstrip(s) == IF s # <<>> /\ Head(s) = " " THEN lstrip(Tail(s)) ELSE s

RECURSIVE rstrip(_)
rstrip(s) ==
    IF s # <<>> /\ s[Len(s)] = " " THEN rstrip(SubSeq(s, 1, Len(s) - 1)) ELSE s

\* str.strip()
strip(s) == rstrip(lstrip(s))

get_tts_model_always_constructs(model, count, ctor_ok) ==
    IF ctor_ok
    THEN [raised |-> FALSE, model |-> count + 1, constructions |-> count + 1]
    ELSE [raised |-> TRUE, model |-> model, constructions |-> count]

\* get_tts_model(): the handle after the call (the index of the object
\* constructed, NoModel while none is), the number of objects constructed so
\* far, and whether TTS(...) raised
get_tts_model(model, count, ctor_ok) ==
    IF model = NoModel
    THEN IF ctor_ok
         THEN [raised |-> FALSE, model |-> count + 1, constructions |-> count + 1]
         ELSE [raised |-> TRUE, model |-> NoModel, constructions |-> count]
    ELSE [raised |-> FALSE, model |-> model, constructions |-> count]

\* raise HTTPException(status_code=status.HTTP_400_BAD_REQUEST, detail=...)
client_error(detail) ==
    [status |-> HTTP_400_BAD_REQUEST, detail |-> detail]

server_error_without_message(prefix, msg) ==
    [status |-> HTTP_500_INTERNAL_SERVER_ERROR, detail |-> <<prefix>>]

\* except Exception as e: raise HTTPException(500, detail=f"<prefix>{str(e)}")
server_error(prefix, msg) ==
    [status |-> HTTP_500_INTERNAL_SERVER_ERROR, detail |-> <<prefix, msg>>]

HTTPException(msg) == [type |-> "HTTPException", msg |-> msg]
Exception(msg) == [type |-> "Exception", msg |-> msg]

\* what a handler leaves behind: the response (status, detail, body), the
\* handle and construction count after it, and what it did on the way
Result(sd, body, tts, init_attempted, engine_call, exception) ==
    [status |-> sd.status, detail |-> sd.detail, body |-> body,
     model |-> tts.model, constructions |-> tts.constructions,
     init_attempted |-> init_attempted, engine_call |-> engine_call,
     exception |-> exception]

extract_processing_time_from_gateway(env) == env.t_gateway + env.t_post

\* processing_time = time.perf_counter() - start_time, start_time read on entry
extract_processing_time(env) == env.t_pre + env.t_gateway + env.t_post

\* POST /extract-embedding
extract_embedding(req, model, count, env) ==
    LET prefix == "Embedding extraction failed: "
        untouched == [raised |-> FALSE, model |-> model, constructions |-> count]
        audio_bytes == b64decode(req.audio_base64)
        audio_array == frombuffer(audio_bytes.nbytes)
        duration_seconds == <<audio_array.len, req.sample_rate>>
        tts == get_tts_model(model, count, env.ctor_ok)
        call == [made |-> TRUE, method |-> "compute_embedding_from_clip",
                 samples |-> audio_array.len, sr |-> req.sample_rate,
                 returned |-> env.engine_ok]
        Raise500(msg, g, attempted, c) ==
            Result(server_error(prefix, msg), <<>>, g, attempted, c, Exception(msg))
        Raise400(msg) ==
            Result(client_error(<<msg>>), <<>>, untouched, FALSE, NoCall,
                   HTTPException(msg))
    IN  IF audio_bytes.raised
        THEN Raise500(audio_bytes.msg, untouched, FALSE, NoCall)
        ELSE IF audio_array.raised
        THEN Raise500(audio_array.msg, untouched, FALSE, NoCall)
        ELSE IF req.sample_rate = 0
        THEN Raise500("division by zero", untouched, FALSE, NoCall)
        ELSE IF TooShort(duration_seconds)
        THEN Raise400("Audio too short. Minimum 1 second required.")
        ELSE IF TooLong(duration_seconds)
        THEN Raise400("Audio too long. Maximum 30 seconds allowed.")
        ELSE IF tts.raised
        THEN Raise500("model load failed", tts, TRUE, NoCall)
        ELSE IF ~env.engine_ok
        THEN Raise500("engine failure", tts, TRUE, call)
        ELSE Result([status |-> HTTP_200_OK, detail |-> <<>>],
                    [embedding_nbytes |-> Float32Size * env.samples,
                     embedding_shape |-> <<env.samples>>,
                     duration_seconds |-> duration_seconds,
                     processing_time_seconds |-> extract_processing_time(env)],
                    tts, TRUE, call, NoException)

map_language_or_passthrough(code) ==
    IF code \in DOMAIN LANGUAGE_CODE_MAP THEN LANGUAGE_CODE_MAP[code] ELSE code

\* LANGUAGE_CODE_MAP.get(request.language)
map_language(code) ==
    IF code \in DOMAIN LANGUAGE_CODE_MAP THEN LANGUAGE_CODE_MAP[code] ELSE "None"

latency_warning_inclusive(processing_time) ==
    IF processing_time >= LATENCY_WARNING_THRESHOLD_SECONDS
    THEN <<"Processing time (", processing_time, "s) exceeded target threshold (",
           LATENCY_WARNING_THRESHOLD_SECONDS, "s)">>
    ELSE <<>>

\* the latency warning of a synthesize response; <<>> is None
latency_warning(processing_time) ==
    IF processing_time > LATENCY_WARNING_THRESHOLD_SECONDS
    THEN <<"Processing time (", processing_time, "s) exceeded target threshold (",
           LATENCY_WARNING_THRESHOLD_SECONDS, "s)">>
    ELSE <<>>

\* processing_time = time.perf_counter() - start_time, start_time read on entry
synthesize_processing_time(env) == env.t_pre + env.t_gateway + env.t_post

\* POST /synthesize
synthesize(req, model, count, env) ==
    LET prefix == "Synthesis failed: "
        untouched == [raised |-> FALSE, model |-> model, constructions |-> count]
        language == map_language(req.language)
        tts == get_tts_model(model, count, env.ctor_ok)
        supplied == req.embedding_base64.kind = "str"
        embedding_bytes == b64decode(req.embedding_base64)
        speaker_embedding == frombuffer(embedding_bytes.nbytes)
        call == [made |-> TRUE, method |-> "tts", text |-> req.text,
                 language |-> language, speed |-> req.speed,
                 gpt_cond_latent |->
                     IF supplied THEN <<1, speaker_embedding.len>> ELSE <<>>,
                 returned |-> env.engine_ok]
        processing_time == synthesize_processing_time(env)
        Raise500(msg, c) ==
            Result(server_error(prefix, msg), <<>>, tts, TRUE, c, Exception(msg))
        Raise400(detail, g, attempted) ==
            Result(client_error(detail), <<>>, g, attempted, NoCall,
                   HTTPException(detail[1]))
    IN  IF language = "None"
        THEN Raise400(<<"Unsupported language: ", req.language,
                        ". Supported: es, zh, ko">>, untouched, FALSE)
        ELSE IF strip(req.text) = <<>>
        THEN Raise400(<<"Text cannot be empty">>, untouched, FALSE)
        ELSE IF tts.raised
        THEN Raise500("model load failed", NoCall)
        ELSE IF supplied /\ embedding_bytes.raised
        THEN Raise400(<<"Invalid embedding format: ", embedding_bytes.msg>>, tts, TRUE)
        ELSE IF supplied /\ speaker_embedding.raised
        THEN Raise400(<<"Invalid embedding format: ", speaker_embedding.msg>>, tts, TRUE)
        ELSE IF ~env.engine_ok
        THEN Raise500("engine failure", call)
        ELSE Result([status |-> HTTP_200_OK, detail |-> <<>>],
                    [audio_nbytes |-> Float32Size * env.samples,
                     sample_rate |-> env.output_sample_rate,
                     duration_seconds |-> <<env.samples, env.output_sample_rate>>,
                     processing_time_seconds |-> processing_time,
                     latency_warning |-> latency_warning(processing_time)],
                    tts, TRUE, call, NoException)

\* speed: Field(ge=0.5, le=2.0)
schema_accepts(req) ==
    req.op = "synthesize" => (MinSpeedTenths <= req.speed /\ req.speed <= MaxSpeedTenths)

\* The environment is consulted as far as the handler gets: not at all before
\* get_tts_model(); TTS(...) only while the handle is None; the engine call only
\* when it is made; its result and the clock readings only on the way to a
\* success.  `probe` is the handler's result in an environment where nothing fails.
EnvsConsulted(probe, model, rates) ==
    IF ~probe.init_attempted
    THEN {NoEnv}
    ELSE (IF model = NoModel THEN {[NoEnv EXCEPT !.ctor_ok = FALSE]} ELSE {})
            \cup (IF probe.engine_call.made
                  THEN {[NoEnv EXCEPT !.engine_ok = FALSE]} \cup Envs(rates)
                  ELSE {NoEnv})

\* the response as the client and the checks below see it
Respond(req, before, env, r) ==
    [op |-> req.op, request |-> req, entered |-> TRUE, model_before |-> before,
     env |-> env, status |-> r.status, detail |-> r.detail, body |-> r.body,
     init_attempted |-> r.init_attempted, engine_call |-> r.engine_call,
     exception |-> r.exception]

\* ------------------------------------------------------------ the service
ServerInit ==
    /\ tts_model = NoModel
    /\ constructions = 0
    /\ request = NoRequest
    /\ response = NoResponse

Idle == request = NoRequest /\ response = NoResponse /\ constructions < MaxConstructions

GetHealth ==
    /\ Idle
    /\ request' = [op |-> "health"]
    /\ UNCHANGED <<tts_model, constructions, response, harness_vars>>

PostExtractEmbedding ==
    /\ Idle
    /\ \E req \in ExtractEmbeddingRequest : request' = req
    /\ UNCHANGED <<tts_model, constructions, response, harness_vars>>

\* a body the schema rejects is answered 422 and never reaches the handler
PostSynthesize ==
    /\ Idle
    /\ \E req \in SynthesizeRequest :
        IF schema_accepts(req)
        THEN request' = req /\ response' = response
        ELSE /\ request' = request
             /\ response' = [op |-> req.op, request |-> req, entered |-> FALSE,
                             model_before |-> tts_model, env |-> NoEnv,
                             status |-> HTTP_422_UNPROCESSABLE_ENTITY,
                             detail |-> <<"speed">>, body |-> <<>>,
                             init_attempted |-> FALSE, engine_call |-> NoCall,
                             exception |-> NoException]
    /\ UNCHANGED <<tts_model, constructions, harness_vars>>

\* GET /health
health_check ==
    /\ request.op = "health"
    /\ response' = [op |-> "health", request |-> request, entered |-> TRUE,
                    model_before |-> tts_model, env |-> NoEnv,
                    status |-> HTTP_200_OK, detail |-> <<>>,
                    body |-> [status |-> "healthy",
                              model_loaded |-> tts_model # NoModel,
                              supported_languages |-> SUPPORTED_LANGUAGES],
                    init_attempted |-> FALSE, engine_call |-> NoCall,
                    exception |-> NoException]
    /\ request' = NoRequest
    /\ UNCHANGED <<tts_model, constructions, harness_vars>>

ExtractEmbedding ==
    /\ request.op = "extract-embedding"
    /\ \E env \in EnvsConsulted(extract_embedding(request, tts_model, constructions, NoEnv),
                               tts_model, {1}) :
        LET r == extract_embedding(request, tts_model, constructions, env)
        IN  /\ tts_model' = r.model
            /\ constructions' = r.constructions
            /\ response' = Respond(request, tts_model, env, r)
    /\ request' = NoRequest
    /\ UNCHANGED harness_vars

Synthesize ==
    /\ request.op = "synthesize"
    /\ \E env \in EnvsConsulted(synthesize(request, tts_model, constructions, NoEnv),
                               tts_model, 1 .. MaxRate) :
        LET r == synthesize(request, tts_model, constructions, env)
        IN  /\ tts_model' = r.model
            /\ constructions' = r.constructions
            /\ response' = Respond(request, tts_model, env, r)
    /\ request' = NoRequest
    /\ UNCHANGED harness_vars

\* the response leaves; nothing of the request outlives it
SendResponse ==
    /\ response # NoResponse
    /\ response' = NoResponse
    /\ UNCHANGED <<tts_model, constructions, request, harness_vars>>

ServerNext ==
    \/ GetHealth
    \/ PostExtractEmbedding
    \/ PostSynthesize
    \/ health_check
    \/ ExtractEmbedding
    \/ Synthesize
    \/ SendResponse

HarnessIdle ==
    /\ hpc = "main"
    /\ calls = <<>>
    /\ embedding_b64 = ""
    /\ embed_ok = FALSE
    /\ synth_ok = FALSE
    /\ idx = 1
    /\ exit_status = -1
    /\ summary = ""

Init == ServerInit /\ HarnessIdle

Spec == Init /\ [][ServerNext]_vars

\* ------------------------------------------------- the verification script
\* test_cases of test_synthesize (the zh and ko texts romanised)
test_cases == <<[lang |-> "es", text |-> "Hola mundo, esta es una prueba."],
                [lang |-> "zh", text |-> "ni hao shijie"],
                [lang |-> "ko", text |-> "annyeonghaseyo"]>>

\* What a call of the script can meet: a 2xx JSON answer, an error status,
\* the call's timeout, no connection.  An /extract-embedding answer carries an
\* embedding_base64 (b64ok: base64.b64decode accepts it); a /synthesize answer
\* may carry a latency warning, and decoding it or writing its WAV file may fail.
NoneEmbedding == "<None>"
AbsentEmbedding == "<absent>"

Failures ==
    [kind : {"http_error", "timeout", "connection_error"}, embedding : {""},
     b64ok : {TRUE}, latency_warning : {FALSE}, saved : {FALSE}]

HealthOutcomes ==
    [kind : {"ok"}, embedding : {""}, b64ok : {TRUE}, latency_warning : {FALSE},
     saved : {FALSE}] \cup Failures

ExtractOutcomes ==
    [kind : {"ok"}, embedding : {"", "AAAA", "BBBB"}, b64ok : {TRUE},
     latency_warning : {FALSE}, saved : {FALSE}]
        \cup [kind : {"ok"}, embedding : {"!bad"}, b64ok : {FALSE},
              latency_warning : {FALSE}, saved : {FALSE}]
        \cup Failures

SynthesizeOutcomes ==
    [kind : {"ok"}, embedding : {""}, b64ok : {TRUE}, latency_warning : BOOLEAN,
     saved : BOOLEAN] \cup Failures

\* test_health(): True iff the answer is 2xx and parses
test_health(outcome) == outcome.kind = "ok"

\* test_extract_embedding(): (embedding_b64, True) or (None, False)
test_extract_embedding(outcome) ==
    IF outcome.kind = "ok" /\ outcome.b64ok
    THEN <<outcome.embedding, TRUE>>
    ELSE <<NoneEmbedding, FALSE>>

extraction_failed_ignoring_empty(embedding, ok) == ~ok

\* if not embed_ok or not embedding_b64
extraction_failed(embedding, ok) ==
    ~ok \/ embedding = "" \/ embedding = NoneEmbedding

\* one pass of the loop body of test_synthesize: whether the call went through
synthesize_call_ok(outcome) == outcome.kind = "ok" /\ outcome.saved

test_synthesize_step_keeps_going(i, ok) ==
    IF i < Len(test_cases)
    THEN [hpc |-> "synth", idx |-> i + 1, synth_ok |-> FALSE]
    ELSE [hpc |-> "summary", idx |-> i + 1, synth_ok |-> ok]

\* where test_synthesize goes after the call for test_cases[i]: the next pair,
\* `return False` from either except clause, or `return True` after the last
test_synthesize_step(i, ok) ==
    IF ~ok
    THEN [hpc |-> "summary", idx |-> i, synth_ok |-> FALSE]
    ELSE IF i < Len(test_cases)
    THEN [hpc |-> "synth", idx |-> i + 1, synth_ok |-> FALSE]
    ELSE [hpc |-> "summary", idx |-> i + 1, synth_ok |-> TRUE]

\* main(): the health check, and sys.exit(1) when it fails
TestHealth ==
    /\ hpc = "main"
    /\ \E outcome \in HealthOutcomes :
        /\ calls' = Append(calls, [endpoint |-> "/health", lang |-> "", text |-> "",
                                   embedding |-> AbsentEmbedding, outcome |-> outcome])
        /\ IF test_health(outcome)
           THEN /\ hpc' = "extract"
                /\ UNCHANGED <<exit_status, summary>>
           ELSE /\ hpc' = "exit"
                /\ exit_status' = 1
                /\ summary' = "FAILED: Server not running or not healthy"
    /\ UNCHANGED <<embedding_b64, embed_ok, synth_ok, idx, server_vars>>

\* main(): the embedding extraction, and sys.exit(1) when it fails
TestExtractEmbedding ==
    /\ hpc = "extract"
    /\ \E outcome \in ExtractOutcomes :
        LET got == test_extract_embedding(outcome)
        IN  /\ calls' = Append(calls, [endpoint |-> "/extract-embedding", lang |-> "",
                                       text |-> "", embedding |-> AbsentEmbedding,
                                       outcome |-> outcome])
            /\ embedding_b64' = got[1]
            /\ embed_ok' = got[2]
            /\ IF extraction_failed(got[1], got[2])
               THEN /\ hpc' = "exit"
                    /\ exit_status' = 1
                    /\ summary' = "FAILED: Could not extract embedding"
               ELSE /\ hpc' = "synth"
                    /\ UNCHANGED <<exit_status, summary>>
    /\ UNCHANGED <<synth_ok, idx, server_vars>>

\* test_synthesize(embedding_b64): the call for test_cases[idx]
TestSynthesize ==
    /\ hpc = "synth"
    /\ \E outcome \in SynthesizeOutcomes :
        LET next == test_synthesize_step(idx, synthesize_call_ok(outcome))
        IN  /\ calls' = Append(calls,
                   [endpoint |-> "/synthesize", lang |-> test_cases[idx].lang,
                    text |-> test_cases[idx].text,
                    embedding |-> IF embedding_b64 \in {"", NoneEmbedding}
                                  THEN AbsentEmbedding ELSE embedding_b64,
                    outcome |-> outcome])
            /\ hpc' = next.hpc
            /\ idx' = next.idx
            /\ synth_ok' = next.synth_ok
    /\ UNCHANGED <<embedding_b64, embed_ok, exit_status, summary, server_vars>>

\* main(): the summary, and the normal return (exit status 0)
Summary ==
    /\ hpc = "summary"
    /\ summary' = IF synth_ok /\ embed_ok
                  THEN "SUCCESS: All tests passed!"
                  ELSE "PARTIAL: Some tests failed"
    /\ exit_status' = 0
    /\ hpc' = "exit"
    /\ UNCHANGED <<calls, embedding_b64, embed_ok, synth_ok, idx, server_vars>>

HarnessNext ==
    \/ TestHealth
    \/ TestExtractEmbedding
    \/ TestSynthesize
    \/ Summary

HarnessSpec == Init /\ [][HarnessNext]_vars

\* ---------------------------------------------------------------- claims
\* the request of the response at hand, read by the claims below
IsExtract == response.op = "extract-embedding" /\ response.entered
IsSynthesize == response.op = "synthesize" /\ response.entered

\* the engine fails: TTS(...) raises on first use, or the engine call raises
EngineFails ==
    \/ response.model_before = NoModel /\ ~response.env.ctor_ok
    \/ ~response.env.engine_ok

AudioDecodes ==
    /\ response.request.audio_base64.b64ok
    /\ response.request.audio_base64.nbytes % 4 = 0

SampleCount == response.request.audio_base64.nbytes \div 4

DurationInRange ==
    /\ response.request.sample_rate > 0
    /\ response.request.sample_rate <= SampleCount
    /\ SampleCount <= 30 * response.request.sample_rate

SynthesizeRequestValid ==
    /\ response.request.language \in {"es", "zh", "zh-cn", "ko"}
    /\ \E i \in 1 .. Len(response.request.text) : response.request.text[i] # " "
    /\ response.request.embedding_base64.kind = "str" =>
        /\ response.request.embedding_base64.b64ok
        /\ response.request.embedding_base64.nbytes % 4 = 0

\* C1: an extract-embedding request whose payload decodes to float32 samples,
\* with a sample rate > 0 and an engine that does not fail, succeeds iff
\* 1.0 <= sample_count / sample_rate <= 30.0 and is answered 400 otherwise.
C1_DurationBounds ==
    (IsExtract /\ AudioDecodes /\ response.request.sample_rate > 0 /\ ~EngineFails)
        => /\ response.status = 200 <=> DurationInRange
           /\ response.status # 200 => response.status = 400

\* 30.0 seconds exactly (60 samples at 2 Hz) is accepted
C1_Witness ==
    /\ IsExtract
    /\ response.request.sample_rate = 2
    /\ response.request.audio_base64.b64ok
    /\ response.request.audio_base64.nbytes = 240
    /\ response.status = 200

\* C2: in extract-embedding, malformed base64 or a decoded length that is not
\* a multiple of 4 is answered 400, never 500, and the engine is not invoked.
C2_MalformedAudioIsClientError ==
    (IsExtract /\ ~AudioDecodes)
        => /\ response.status = 400
           /\ ~response.init_attempted
           /\ ~response.engine_call.made

C5_LatencyWarning ==
    IsSynthesize
        => LET measured ==
                   response.env.t_pre + response.env.t_gateway + response.env.t_post
           IN  /\ response.status = 200
                    => /\ response.body.processing_time_seconds = measured
                       /\ response.body.latency_warning # <<>> <=> measured > 4
               /\ (SynthesizeRequestValid /\ ~EngineFails) => response.status = 200

\* exactly 4 s: a success without warning
C5_Witness ==
    /\ IsSynthesize
    /\ response.status = 200
    /\ response.body.processing_time_seconds = 4
    /\ response.body.latency_warning = <<>>

\* C8: a request that entered its handler ends as a complete success, a 400 or
\* a 500; an exception that reaches the handler's boundary and is not an
\* HTTPException, every engine failure included, becomes a 500 carrying its
\* message; a success needs a valid request and an engine call that returned.
C8_ThreeOutcomes ==
    (IsExtract \/ IsSynthesize)
        => /\ response.status \in {200, 400, 500}
           /\ response.exception.type = "Exception"
                => /\ response.status = 500
                   /\ response.detail =
                        <<IF IsExtract THEN "Embedding extraction failed: "
                                       ELSE "Synthesis failed: ",
                          response.exception.msg>>
           /\ (response.init_attempted /\ response.model_before = NoModel
                    /\ ~response.env.ctor_ok)
                => response.status = 500 /\ response.exception.type = "Exception"
           /\ (response.engine_call.made /\ ~response.env.engine_ok)
                => response.status = 500 /\ response.exception.type = "Exception"
           /\ response.status = 200
                => /\ IF IsExtract THEN AudioDecodes /\ DurationInRange
                                   ELSE SynthesizeRequestValid
                   /\ response.engine_call.made
                   /\ response.engine_call.returned
                   /\ response.env.engine_ok
                   /\ response.exception = NoException
                   /\ "processing_time_seconds" \in DOMAIN response.body
                   /\ "duration_seconds" \in DOMAIN response.body
           /\ response.status # 200
                => response.body = <<>> /\ response.exception # NoException

\* an engine failure in synthesize answered 500 with its message
C8_Witness ==
    /\ IsSynthesize
    /\ response.engine_call.made
    /\ ~response.env.engine_ok
    /\ response.status = 500
    /\ response.detail = <<"Synthesis failed: ", "engine failure">>

\* C9 as stated: processing_time_seconds of a successful extract-embedding
\* response is the time of the engine call alone, without decoding,
\* validating and encoding.
C9_EngineTimeOnly ==
    (IsExtract /\ response.status = 200)
        => response.body.processing_time_seconds = response.env.t_gateway

\* C9 amended: processing_time_seconds is the time from the entry of the
\* handler to after the encoding of the embedding: decoding, validating, the
\* engine call and encoding are all in it.
C9_WholeHandlerTime ==
    (IsExtract /\ response.status = 200)
        => response.body.processing_time_seconds =
                response.env.t_pre + response.env.t_gateway + response.env.t_post

\* a success with time spent before and after the engine call
C9_Witness ==
    /\ IsExtract
    /\ response.status = 200
    /\ response.env.t_pre = 1
    /\ response.env.t_gateway = 1
    /\ response.env.t_post = 1
    /\ response.body.processing_time_seconds = 3

\* C10: a synthesize request answered with a client error leaves the engine
\* handle as it was before the request and makes no engine call.
C10_ClientErrorLeavesEngineAlone ==
    (IsSynthesize /\ response.status = 400)
        => /\ tts_model = response.model_before
           /\ ~response.init_attempted
           /\ ~response.engine_call.made

\* the calls of the synthesis loop, as indices of calls
SynthCalls == {i \in 1 .. Len(calls) : calls[i].endpoint = "/synthesize"}

CallFailed(i) == calls[i].outcome.kind # "ok" \/ ~calls[i].outcome.saved

LoopOver == hpc \in {"summary", "exit"} /\ SynthCalls # {}

C7_StrictOrder ==
    /\ \A i \in 1 .. Len(calls) :
        /\ calls[i].endpoint = "/health" <=> i = 1
        /\ calls[i].endpoint = "/extract-embedding" <=> i = 2
        /\ i >= 2 => calls[1].outcome.kind = "ok"
        /\ i >= 3
            => /\ calls[i].endpoint = "/synthesize"
               /\ calls[2].outcome.kind = "ok"
               /\ calls[2].outcome.b64ok
               /\ calls[2].outcome.embedding # ""
               /\ calls[i].embedding = calls[2].outcome.embedding
    /\ Len(calls) <= 2 + Len(test_cases)
    /\ (hpc = "exit" /\ Len(calls) = 1) => exit_status = 1
    /\ (hpc = "exit" /\ Len(calls) = 2) => exit_status = 1
    /\ (Len(calls) = 1 /\ calls[1].outcome.kind # "ok")
        => hpc = "exit" /\ exit_status = 1
    /\ (Len(calls) = 2 /\ (calls[2].outcome.kind # "ok" \/ ~calls[2].outcome.b64ok
                            \/ calls[2].outcome.embedding = ""))
        => hpc = "exit" /\ exit_status = 1

\* all five calls made, the ko call carrying the extracted embedding
C7_Witness ==
    /\ Len(calls) = 5
    /\ calls[2].outcome.embedding = "BBBB"
    /\ calls[5].lang = "ko"
    /\ calls[5].embedding = "BBBB"

====
